---- MODULE Spec2Model ----
(***************************************************************************)
(* Huffman coding library (src/src/lib.rs): generate_huffman builds the    *)
(* code table of an input string, compress packs the input's codes into    *)
(* bytes, decompress reads them back.  The model follows one run of the    *)
(* pipeline generate_huffman -> compress -> decompress, one action per     *)
(* function or loop iteration.                                             *)
(*                                                                         *)
(* Characters are natural numbers (Unicode scalar values); bytes are       *)
(* 0..255.  Option<T> is a sequence: <<>> is None and <<x>> is Some(x).    *)
(* A HashMap is a function; a BinaryHeap is a bag of nodes.                *)
(***************************************************************************)
EXTENDS Naturals, Sequences, FiniteSets, Bags

VARIABLES
    debug,           \* build profile: TRUE = debug assertions and overflow checks on
    s,               \* the input string, a sequence of chars
    pc,              \* position of the run
    panic,           \* "" or the message of the panic that ended the run
    min_heap,        \* generate_huffman: the BinaryHeap<Reverse<Node>>, a bag
    heap_len,        \* generate_huffman: min_heap.len() after the leaves are pushed
    root,            \* generate_huffman: the node the loop breaks with (Option)
    huffman_codes,   \* the HashMap<u8, HuffmanCode> returned by generate_huffman
    compressed,      \* the Vec<u8> returned by compress
    char_ix,         \* compress: index of the char the loop is at (1-based)
    buffer,          \* compress: the bits not yet emitted, a u8
    buffer_len,      \* compress: how many they are
    dec_compressed,  \* decompress: its `compressed` argument
    output_len,      \* decompress: its `output_len` argument
    byte_ix,         \* decompress: index of the byte the outer loop is at (1-based)
    i,               \* decompress: the inner loop's counter
    dec_buffer,      \* decompress: its `buffer`, the candidate code
    decompressed     \* decompress: the output so far

vars == <<debug, s, pc, panic, min_heap, heap_len, root, huffman_codes, compressed,
          char_ix, buffer, buffer_len, dec_compressed, output_len, byte_ix, i,
          dec_buffer, decompressed>>

----------------------------------------------------------------------------
(* Bounds of the model *)

\* longest input among the exhaustively enumerated short inputs
MaxLen == 4

\* number of distinct symbols of the skewed input (symbol k occurs Fib(k) times)
DeepSyms == 10

\* decompress is called with every output_len up to this, and with len(s)
MaxOutputLen == 2

----------------------------------------------------------------------------
(* Integer widths *)

\* number of values of a u8
U8 == 256

\* bit width of a u8
U8Bits == 8

\* `c as u8`: a char is truncated to its low 8 bits
AsU8(c) == c % U8

\* x << 1 on a u8: the high bit is shifted out
Shl1(x) == (x * 2) % U8

\* x >> n on a u8 where overflow checks are off: the shift amount is masked
\* to the width
Shr(x, n) == x \div (2 ^ (n % U8Bits))

\* x >> n on a u8 panics under overflow checks when n >= 8
ShrOverflows(n) == n >= U8Bits

None == <<>>

Some(x) == <<x>>

----------------------------------------------------------------------------
(* Node *)

NodeNew(weight, symbol) ==
    [left |-> None, right |-> None, weight |-> weight, symbol |-> Some(symbol)]

----------------------------------------------------------------------------
(* HuffmanCode *)

HuffmanCodeDefault == [code |-> 0, len |-> 0]

\* self.len += 1 panics under overflow checks when len is 255
PushOverflows(c) == c.len = U8 - 1

push(c, bit) == [code |-> Shl1(c.code) + bit, len |-> (c.len + 1) % U8]

\* bits() shifts by len - i - 1 for i in 0..len; the largest shift is len - 1
bitsOverflows(c) == c.len > 0 /\ ShrOverflows(c.len - 1)

bits(c) == [k \in 1..c.len |-> Shr(c.code, c.len - (k - 1) - 1) % 2]

----------------------------------------------------------------------------
(* Inputs *)

\* 'a', 'b', 'c' and U+0161, whose low byte is that of 'a'
Alphabet == {97, 98, 99, 353}

ShortInputs == UNION {[1..n -> Alphabet] : n \in 0..MaxLen}

RECURSIVE Fib(_)
Fib(k) == IF k <= 2 THEN 1 ELSE Fib(k - 1) + Fib(k - 2)

\* the k-th letter of the skewed input: 'a', 'b', ...
Letter(k) == 96 + k

\* letters 1..k, the j-th repeated Fib(j) times: its Huffman tree is a chain
\* of depth k - 1
RECURSIVE SkewedInput(_)
SkewedInput(k) ==
    IF k = 0 THEN <<>>
    ELSE SkewedInput(k - 1) \o [j \in 1..Fib(k) |-> Letter(k)]

DeepInputs == {SkewedInput(DeepSyms)}

----------------------------------------------------------------------------
(* generate_huffman *)

\* the fold of lines 75-80: char -> number of occurrences
Frequencies(str) ==
    [c \in {str[j] : j \in DOMAIN str} |->
        Cardinality({j \in DOMAIN str : str[j] = c})]

\* lines 81-82: one leaf per entry of the frequency table, its symbol the
\* char cast to u8
Leaves(str) ==
    LET freq == Frequencies(str)
        leaf(c) == NodeNew(freq[c], AsU8(c))
    IN  [n \in {leaf(c) : c \in DOMAIN freq} |->
            Cardinality({c \in DOMAIN freq : leaf(c) = n})]

\* a heap that hands out any node, whatever its weight
PopAnyNode(heap) == BagToSet(heap)

\* the nodes BinaryHeap::pop may return: Node::cmp compares weights only, so
\* any node of least weight
PopChoices(heap) ==
    {n \in BagToSet(heap) : \A m \in BagToSet(heap) : n.weight <= m.weight}

Popped(heap, n) == heap (-) SetToBag({n})

HashMapInsert(map, key, value) ==
    [k \in DOMAIN map \cup {key} |-> IF k = key THEN value ELSE map[k]]

RECURSIVE create_codes(_, _, _)
create_codes(code, node, codes) ==
    LET below ==
            IF node.left # None /\ node.right # None
            THEN create_codes(push(code, 1), node.right[1],
                     create_codes(push(code, 0), node.left[1], codes))
            ELSE codes
    IN  IF node.symbol # None
        THEN HashMapInsert(below, node.symbol[1], code)
        ELSE below

GenUnchanged ==
    UNCHANGED <<debug, s, compressed, char_ix, buffer, buffer_len,
                dec_compressed, output_len, byte_ix, i, dec_buffer, decompressed>>

\* lines 74-84
PushLeaves ==
    /\ pc = "generate"
    /\ min_heap' = Leaves(s)
    /\ heap_len' = BagCardinality(Leaves(s))
    /\ pc' = "loop"
    /\ UNCHANGED <<panic, root, huffman_codes>>
    /\ GenUnchanged

\* lines 87-97: both pops return a node
Merge ==
    /\ pc = "loop"
    /\ BagCardinality(min_heap) >= 2
    /\ \E node \in PopChoices(min_heap) :
         \E node1 \in PopChoices(Popped(min_heap, node)) :
            LET new_node == [left |-> Some(node), right |-> Some(node1),
                             weight |-> node.weight + node1.weight,
                             symbol |-> None]
            IN  min_heap' = Popped(Popped(min_heap, node), node1)
                                (+) SetToBag({new_node})
    /\ UNCHANGED <<pc, panic, heap_len, root, huffman_codes>>
    /\ GenUnchanged

\* line 98: the second pop returns None
BreakRoot ==
    /\ pc = "loop"
    /\ BagCardinality(min_heap) = 1
    /\ \E node \in PopChoices(min_heap) :
         /\ root' = Some(node)
         /\ min_heap' = Popped(min_heap, node)
    /\ pc' = "create_codes"
    /\ UNCHANGED <<panic, heap_len, huffman_codes>>
    /\ GenUnchanged

\* an empty heap yields an empty table instead of the panic
ReturnEmptyTable ==
    /\ pc = "loop"
    /\ BagCardinality(min_heap) = 0
    /\ pc' = "compress"
    /\ UNCHANGED <<panic, min_heap, heap_len, root, huffman_codes>>
    /\ GenUnchanged

\* line 99: the first pop returns None
PanicNoRoot ==
    /\ pc = "loop"
    /\ BagCardinality(min_heap) = 0
    /\ pc' = "panicked"
    /\ panic' = "no root found"
    /\ UNCHANGED <<min_heap, heap_len, root, huffman_codes>>
    /\ GenUnchanged

\* lines 103-108.  The tree is moved into create_codes; `root` keeps the value
\* that was walked.  huffman_codes is returned unless the assertion panics.
CreateCodes ==
    /\ pc = "create_codes"
    /\ LET codes == create_codes(HuffmanCodeDefault, root[1], <<>>)
       IN  /\ huffman_codes' = codes
           /\ IF debug /\ heap_len # Cardinality(DOMAIN codes)
              THEN pc' = "panicked" /\ panic' = "assertion failed"
              ELSE pc' = "compress" /\ panic' = panic
    /\ UNCHANGED <<min_heap, heap_len, root>>
    /\ GenUnchanged

----------------------------------------------------------------------------
(* compress *)

\* lines 130-137: one bit enters the u8 buffer; a full buffer is emitted
PackBit(st, bit) ==
    LET buf == Shl1(st.buffer) + bit
        len == st.buffer_len + 1
    IN  IF len = U8Bits
        THEN [compressed |-> Append(st.compressed, buf),
              buffer |-> 0, buffer_len |-> 0]
        ELSE [compressed |-> st.compressed, buffer |-> buf, buffer_len |-> len]

\* line 129: for bit in code.bits(), from the k-th bit on
RECURSIVE PackBits(_, _, _)
PackBits(st, bs, k) ==
    IF k > Len(bs) THEN st ELSE PackBits(PackBit(st, bs[k]), bs, k + 1)

\* line 128: the unwrap of a lookup that finds nothing
LookupFails(c, codes) == AsU8(c) \notin DOMAIN codes

\* lines 127-139: one iteration of the loop over s.chars()
CompressChar ==
    /\ pc = "compress"
    /\ char_ix <= Len(s)
    /\ LET c == s[char_ix]
       IN  IF LookupFails(c, huffman_codes)
           THEN /\ pc' = "panicked"
                /\ panic' = "unwrap on None"
                /\ UNCHANGED <<char_ix, compressed, buffer, buffer_len>>
           ELSE IF debug /\ bitsOverflows(huffman_codes[AsU8(c)])
           THEN /\ pc' = "panicked"
                /\ panic' = "shift right with overflow"
                /\ UNCHANGED <<char_ix, compressed, buffer, buffer_len>>
           ELSE LET st == PackBits([compressed |-> compressed,
                                    buffer |-> buffer,
                                    buffer_len |-> buffer_len],
                                   bits(huffman_codes[AsU8(c)]), 1)
                IN  /\ compressed' = st.compressed
                    /\ buffer' = st.buffer
                    /\ buffer_len' = st.buffer_len
                    /\ char_ix' = char_ix + 1
                    /\ UNCHANGED <<pc, panic>>
    /\ UNCHANGED <<debug, s, min_heap, heap_len, root, huffman_codes,
                   dec_compressed, output_len, byte_ix, i, dec_buffer,
                   decompressed>>

\* the last byte emitted as it is, without the shift
PaddedRight(buf, len) == buf

\* the last byte, left-justified: buffer << (8 - buffer_len)
Padded(buf, len) == (buf * (2 ^ (U8Bits - len))) % U8

\* lines 141-145: the loop is over
CompressReturn ==
    /\ pc = "compress"
    /\ char_ix > Len(s)
    /\ compressed' = IF buffer_len > 0
                     THEN Append(compressed, Padded(buffer, buffer_len))
                     ELSE compressed
    /\ pc' = "call_decompress"
    /\ UNCHANGED <<debug, s, panic, min_heap, heap_len, root, huffman_codes,
                   char_ix, buffer, buffer_len, dec_compressed, output_len,
                   byte_ix, i, dec_buffer, decompressed>>

----------------------------------------------------------------------------
(* decompress *)

\* the buffers the caller hands to decompress: the output of compress, and
\* that output with its last byte missing
Buffers(bytes) ==
    IF Len(bytes) > 0
    THEN {bytes, SubSeq(bytes, 1, Len(bytes) - 1)}
    ELSE {bytes}

\* the expected lengths the caller hands to decompress
OutputLens(str) == (0..MaxOutputLen) \cup {Len(str)}

\* the call, and lines 149-150
CallDecompress ==
    /\ pc = "call_decompress"
    /\ \E data \in Buffers(compressed), k \in OutputLens(s) :
         /\ dec_compressed' = data
         /\ output_len' = k
    /\ decompressed' = <<>>
    /\ dec_buffer' = HuffmanCodeDefault
    /\ byte_ix' = 1
    /\ i' = 0
    /\ pc' = "decompress"
    /\ UNCHANGED <<debug, s, panic, min_heap, heap_len, root, huffman_codes,
                   compressed, char_ix, buffer, buffer_len>>

\* line 157: the symbols whose code equals the candidate code (code and len both);
\* find returns the first in the map's iteration order, which is any of them
Matches(codes, buf) == {sym \in DOMAIN codes : codes[sym] = buf}

\* lines 153-165: one iteration of the inner loop
DecompressBit ==
    /\ pc = "decompress"
    /\ byte_ix <= Len(dec_compressed)
    /\ LET byte == dec_compressed[byte_ix]
           bit == Shr(byte, 7 - i) % 2
           pushed == push(dec_buffer, bit)
           advance == /\ i' = (i + 1) % U8Bits
                      /\ byte_ix' = IF i = U8Bits - 1 THEN byte_ix + 1 ELSE byte_ix
       IN  IF debug /\ PushOverflows(dec_buffer)
           THEN /\ pc' = "panicked"
                /\ panic' = "add with overflow"
                /\ UNCHANGED <<byte_ix, i, dec_buffer, decompressed>>
           ELSE IF Matches(huffman_codes, pushed) = {}
           THEN /\ dec_buffer' = pushed
                /\ advance
                /\ UNCHANGED <<pc, panic, decompressed>>
           ELSE \E symbol \in Matches(huffman_codes, pushed) :
                /\ decompressed' = Append(decompressed, symbol)
                /\ dec_buffer' = HuffmanCodeDefault
                /\ IF Len(decompressed') = output_len
                   THEN pc' = "done" /\ UNCHANGED <<byte_ix, i>>
                   ELSE pc' = pc /\ advance
                /\ UNCHANGED panic
    /\ UNCHANGED <<debug, s, min_heap, heap_len, root, huffman_codes,
                   compressed, char_ix, buffer, buffer_len, dec_compressed,
                   output_len>>

\* lines 152 and 168: the outer loop is out of bytes and the output is returned
DecompressReturn ==
    /\ pc = "decompress"
    /\ byte_ix > Len(dec_compressed)
    /\ pc' = "done"
    /\ UNCHANGED <<debug, s, panic, min_heap, heap_len, root, huffman_codes,
                   compressed, char_ix, buffer, buffer_len, dec_compressed,
                   output_len, byte_ix, i, dec_buffer, decompressed>>

----------------------------------------------------------------------------
(* Specifications *)

InitWith(inputs) ==
    /\ debug \in BOOLEAN
    /\ s \in inputs
    /\ pc = "generate"
    /\ panic = ""
    /\ min_heap = EmptyBag
    /\ heap_len = 0
    /\ root = None
    /\ huffman_codes = <<>>
    /\ compressed = <<>>
    /\ char_ix = 1
    /\ buffer = 0
    /\ buffer_len = 0
    /\ dec_compressed = <<>>
    /\ output_len = 0
    /\ byte_ix = 1
    /\ i = 0
    /\ dec_buffer = HuffmanCodeDefault
    /\ decompressed = <<>>

Init == InitWith(ShortInputs \cup DeepInputs)

\* the inputs whose chars all fit a byte
ByteInputs == {str \in ShortInputs \cup DeepInputs : \A j \in DOMAIN str : str[j] < U8}

InitBytes == InitWith(ByteInputs)

InitShort == InitWith(ShortInputs)

Next ==
    \/ PushLeaves
    \/ Merge
    \/ BreakRoot
    \/ PanicNoRoot
    \/ CreateCodes
    \/ CompressChar
    \/ CompressReturn
    \/ CallDecompress
    \/ DecompressBit
    \/ DecompressReturn

\* every input: the short ones and the skewed one
Spec == Init /\ [][Next]_vars

\* the short inputs only
SpecShort == InitShort /\ [][Next]_vars

\* the inputs made of one-byte chars only
SpecBytes == InitBytes /\ [][Next]_vars

\* the run is sequential and takes its next step whenever it has one
FairSpec == Init /\ [][Next]_vars /\ WF_vars(Next)

----------------------------------------------------------------------------
(* Vocabulary of the properties *)

\* the input as the symbols (bytes) the functions see
Symbols(str) == [j \in DOMAIN str |-> AsU8(str[j])]

\* generate_huffman has returned its table
TableReturned ==
    /\ pc \in {"compress", "call_decompress", "decompress", "done", "panicked"}
    /\ panic \notin {"no root found", "assertion failed"}

\* decompress has returned from the call decompress(compress(s, T), T, len(s))
RoundTripReturned ==
    /\ pc = "done"
    /\ dec_compressed = compressed
    /\ output_len = Len(s)

IsPrefix(x, y) == Len(x) <= Len(y) /\ \A k \in 1..Len(x) : x[k] = y[k]

\* the len bits of the packed code value, most significant first
StoredBits(c) == [k \in 1..c.len |-> (c.code \div (2 ^ (c.len - k))) % 2]

\* the leaves of a tree, each with its root-to-leaf path (0 left, 1 right)
RECURSIVE LeafPaths(_, _)
LeafPaths(node, path) ==
    IF node.left # None /\ node.right # None
    THEN LeafPaths(node.left[1], Append(path, 0))
            \cup LeafPaths(node.right[1], Append(path, 1))
    ELSE {<<node, path>>}

RECURSIVE SumOver(_, _)
SumOver(S, f) ==
    IF S = {} THEN 0
    ELSE LET x == CHOOSE x \in S : TRUE IN f[x] + SumOver(S \ {x}, f)

----------------------------------------------------------------------------
(* C1: round trip.  For every non-empty input S with T = generate_huffman(S), *)
(* decompress(compress(S, T), T, len(S)) returns exactly the symbols of S.    *)
RoundTrip == RoundTripReturned => decompressed = Symbols(s)

(* C2: prefix-freedom.  In every table generate_huffman returns, the stored   *)
(* code of a symbol (the len bits of its packed value) is neither a prefix of *)
(* nor equal to the stored code of another symbol, whatever the pop order.    *)
PrefixFree ==
    TableReturned =>
        \A a, b \in DOMAIN huffman_codes :
            a # b => ~IsPrefix(StoredBits(huffman_codes[a]),
                               StoredBits(huffman_codes[b]))

\* the input is one char repeated
SingleSymbol == s # <<>> /\ \A j \in DOMAIN s : s[j] = s[1]

(* C3: an input made of one symbol repeated k >= 1 times gets a table of      *)
(* exactly one entry, and decompress(compress(S, T), T, k) returns the k      *)
(* original symbols.                                                          *)
SingleSymbolRoundTrip ==
    SingleSymbol =>
        /\ TableReturned => Cardinality(DOMAIN huffman_codes) = 1
        /\ RoundTripReturned =>
              /\ Len(decompressed) = Len(s)
              /\ \A j \in DOMAIN s : decompressed[j] = AsU8(s[1])

(* C4: truncation detection.  decompress never returns a result shorter than  *)
(* output_len: when its bytes run out first it ends in an error instead.      *)
TruncationDetected == pc = "done" => Len(decompressed) >= output_len

(* C5: code-table completeness.  The table has as many entries as leaves were *)
(* pushed on the heap, so the debug assertion of generate_huffman never fails.*)
CodeTableComplete ==
    /\ panic # "assertion failed"
    /\ TableReturned => Cardinality(DOMAIN huffman_codes) = heap_len

\* weighted path length of a tree, each leaf at the length of the code
\* create_codes hands it
RECURSIVE TreeWPL(_, _)
TreeWPL(node, code) ==
    IF node.left # None /\ node.right # None
    THEN TreeWPL(node.left[1], push(code, 0)) + TreeWPL(node.right[1], push(code, 1))
    ELSE node.weight * code.len

\* weighted path length of a table: sum of count(c) * len(code(c))
TableWPL(freq, codes) ==
    SumOver(DOMAIN freq, [c \in DOMAIN freq |-> freq[c] * codes[AsU8(c)].len])

\* Kraft's inequality: the code lengths a prefix-free binary code can have
Kraft(lens) ==
    LET L == Cardinality(DOMAIN lens)
    IN  SumOver(DOMAIN lens, [c \in DOMAIN lens |-> 2 ^ (L - lens[c])]) <= 2 ^ L

\* the least weighted path length of a prefix-free binary code for freq (no
\* optimal code has a code longer than the alphabet)
MinWPL(freq) ==
    LET n == Cardinality(DOMAIN freq)
        cost(lens) == SumOver(DOMAIN freq, [c \in DOMAIN freq |-> freq[c] * lens[c]])
        costs == {cost(lens) : lens \in {l \in [DOMAIN freq -> 0..n] : Kraft(l)}}
    IN  CHOOSE w \in costs : \A v \in costs : w <= v

EmptyInputRejected ==
    /\ [](s = <<>> => (~TableReturned /\ pc \in {"generate", "loop", "panicked"}))
    /\ (s = <<>>) ~> (pc = "panicked" /\ panic = "no root found")

\* the empty input has reached the panic
EmptyInputWitness == s = <<>> /\ pc = "panicked" /\ panic = "no root found"

(* C8: decompress stops at the expected count.  For every output_len,         *)
(* including 0, its result never has more than output_len symbols.            *)
StopsAtExpectedCount ==
    pc \in {"decompress", "done"} => Len(decompressed) <= output_len

(* C9: code assignment records the path.  For every leaf of the tree, bits()  *)
(* of the code stored for its symbol is its root-to-leaf path (0 left,        *)
(* 1 right) and the code's len is its depth, for trees of any depth.          *)
CodesRecordPaths ==
    TableReturned =>
        \A lp \in LeafPaths(root[1], <<>>) :
            LET code == huffman_codes[lp[1].symbol[1]]
            IN  /\ ~(debug /\ bitsOverflows(code))
                /\ bits(code) = lp[2]
                /\ code.len = Len(lp[2])

\* the (char, bit) places of the concatenated codes of str
CodePlaces(str, codes) ==
    {<<j, k>> \in (DOMAIN str) \X (1..U8) : k <= codes[AsU8(str[j])].len}

\* the position of a place in the concatenation
PlacePos(places, p) ==
    1 + Cardinality({q \in places : q[1] < p[1] \/ (q[1] = p[1] /\ q[2] < p[2])})

\* the n-th bit of a byte sequence read most-significant-bit-first
OutBit(bytes, n) == (bytes[((n - 1) \div 8) + 1] \div (2 ^ (7 - ((n - 1) % 8)))) % 2

(* C10: bit packing layout.  The output of compress, read most significant    *)
(* bit first, is the codes of the input's symbols in input order followed     *)
(* only by zero bits; it has ceil(B / 8) bytes for B bits of code, so fewer   *)
(* than 8 padding bits, and no byte when B = 0.                               *)
PackingLayout ==
    pc = "call_decompress" =>
        LET places == CodePlaces(s, huffman_codes)
            B == Cardinality(places)
        IN  /\ Len(compressed) = (B + 7) \div 8
            /\ \A p \in places :
                  OutBit(compressed, PlacePos(places, p))
                      = bits(huffman_codes[AsU8(s[p[1]])])[p[2]]
            /\ \A n \in (B + 1)..(8 * Len(compressed)) : OutBit(compressed, n) = 0

\* compress has returned several bytes, the last one padded
PackingLayoutWitness ==
    /\ pc = "call_decompress"
    /\ Len(compressed) >= 2
    /\ buffer_len > 0

====
